---- MODULE Spec2Model ----
(***************************************************************************)
(* A model of the zbx package: the ZBXD frame codec (readZabbixMessage,    *)
(* sendZabbixMessage), the passive agent (Start, newConnection,            *)
(* consumeReader) and the active session (startActiveSession, Send).       *)
(*                                                                         *)
(* Byte strings are Go []byte values.  A byte string is kept as an         *)
(* explicit sequence h followed by z zero bytes, so that payloads as long  *)
(* as the 128 MiB protocol limit can be written down.  Every byte of the   *)
(* model is below 128 and every length below 2^31.                         *)
(***************************************************************************)
EXTENDS Integers, Sequences, FiniteSets, TLC

VARIABLES
    peer,      \* codec: the request a peer put on the stream, or None
    pipe,      \* codec: the byte stream a reader is given
    sent,      \* codec: the payload handed to sendZabbixMessage, or None
    got,       \* codec: the result of readZabbixMessage, or None
    proc,      \* passive: the agent process ("init", "listening", "returned", "panicked")
    conns,     \* passive: per accepted connection, its stream and what was done on it
    session,   \* active: the ActiveSession, or None
    sends,     \* active: per caller, the Send call in progress
    dials,     \* active: number of connections dialled so far
    wire,      \* active: the batches written to the collector, in order
    agent,     \* passive: the call of Start, its arguments, its listener and what it returned
    reg,       \* active: the last call of startActiveSession and what it returned, or None
    links      \* active: the connections dialFunc returned, in order, and what was done on each

vars == <<peer, pipe, sent, got, proc, conns, session, sends, dials, wire, agent, reg, links>>

None == [kind |-> "none"]

Min(a, b) == IF a < b THEN a ELSE b

(***************************************************************************)
(* Byte strings                                                            *)
(***************************************************************************)
Zeros(n) == [i \in 1..n |-> 0]

RECURSIVE StripZ(_)
StripZ(s) == IF s # <<>> /\ s[Len(s)] = 0 THEN StripZ(SubSeq(s, 1, Len(s) - 1)) ELSE s

\* the bytes of s followed by n zero bytes (make([]byte, n) is n zero bytes)
Bytes(s, n) == LET t == StripZ(s) IN [h |-> t, z |-> n + Len(s) - Len(t)]

Empty == Bytes(<<>>, 0)

BLen(b) == Len(b.h) + b.z

BTake(b, n) ==
    IF n <= Len(b.h) THEN Bytes(SubSeq(b.h, 1, n), 0)
    ELSE [h |-> b.h, z |-> Min(n, BLen(b)) - Len(b.h)]

BDrop(b, n) ==
    IF n < Len(b.h) THEN [h |-> SubSeq(b.h, n + 1, Len(b.h)), z |-> b.z]
    ELSE [h |-> <<>>, z |-> BLen(b) - Min(n, BLen(b))]

BCat(a, b) ==
    IF b.h = <<>> THEN [h |-> a.h, z |-> a.z + b.z]
    ELSE [h |-> a.h \o Zeros(a.z) \o b.h, z |-> b.z]

\* the explicit bytes of a short byte string
ToSeq(b) == b.h \o Zeros(b.z)

\* binary.LittleEndian.PutUint32 / PutUint64: n in w bytes, least significant first
\* (n < 2^31, so the bytes above the fourth are zero)
PutUint(n, w) == [i \in 1..w |-> IF i > 4 THEN 0 ELSE (n \div (256 ^ (i - 1))) % 256]

\* binary.LittleEndian.Uint32 of buf[off+1 .. off+4]
Uint32(buf, off) ==
    buf[off + 1] + 256 * buf[off + 2] + 65536 * buf[off + 3] + 16777216 * buf[off + 4]

\* binary.LittleEndian.Uint64 as its two 32-bit halves
Uint64(buf) == [hi |-> Uint32(buf, 4), lo |-> Uint32(buf, 0)]

Magic == <<90, 66, 88, 68>>                               \* "ZBXD"

(***************************************************************************)
(* io.Reader over a net.Conn.  The stream holds the chunks in which the    *)
(* peer's bytes become available and how it ends: "eof" (the peer closed), *)
(* "open" (the peer sends nothing more and keeps the connection) or        *)
(* "reset" (a transport error).  One Read returns bytes of one chunk only. *)
(***************************************************************************)
\* (mutant) a Read into an empty buffer reports the state of the stream like any other
ReadEmptyAsAny(r, n) ==
    IF r.chunks = <<>>
    THEN [cnt |-> 0, buf |-> Empty, rest |-> r,
          err |-> CASE r.end = "eof" -> "EOF" [] r.end = "open" -> "block" [] OTHER -> "reset"]
    ELSE [cnt |-> Min(n, BLen(Head(r.chunks))), buf |-> BTake(Head(r.chunks), n), err |-> "nil",
          rest |-> [r EXCEPT !.chunks = IF BLen(BDrop(Head(r.chunks), n)) = 0 THEN Tail(@)
                                        ELSE <<BDrop(Head(r.chunks), n)>> \o Tail(@)]]

Read(r, n) ==
    IF n = 0 THEN [cnt |-> 0, buf |-> Empty, err |-> "nil", rest |-> r]
    ELSE IF r.chunks = <<>>
    THEN [cnt |-> 0, buf |-> Empty, rest |-> r,
          err |-> CASE r.end = "eof" -> "EOF" [] r.end = "open" -> "block" [] OTHER -> "reset"]
    ELSE LET c == Head(r.chunks)
             k == Min(n, BLen(c))
             left == BDrop(c, k)
         IN [cnt |-> k, buf |-> BTake(c, k), err |-> "nil",
             rest |-> [r EXCEPT !.chunks = IF BLen(left) = 0 THEN Tail(@) ELSE <<left>> \o Tail(@)]]

\* the n-byte buffer after a Read into it: what was read, the rest still zero
Buf(rd, n) == ToSeq(rd.buf) \o Zeros(n - rd.cnt)

\* err != nil && err != io.EOF
Failed(rd) == rd.err \notin {"nil", "EOF"}

(***************************************************************************)
(* readZabbixMessage                                                       *)
(***************************************************************************)
RErr(why, rest) == [kind |-> "err", why |-> why, data |-> Empty, rest |-> rest]
ROk(data, rest) == [kind |-> "ok", why |-> "", data |-> data, rest |-> rest]
\* a Read that failed returns its error; a Read that never returns blocks the caller
RFail(rd) == IF rd.err = "block" THEN [kind |-> "block", why |-> "", data |-> Empty, rest |-> rd.rest]
             ELSE RErr(rd.err, rd.rest)

ProtocolBit(flags) == flags % 2 = 1
\* (mutant) the compression bit is not looked at
CompressionBitIgnored(flags) == FALSE

\* (mutant) the large-packet bit is not looked at
LargeBitIgnored(flags) == FALSE

CompressionBit(flags) == (flags \div 2) % 2 = 1

LargeBit(flags) == (flags \div 4) % 2 = 1


\* (mutant) a short read of the data is followed by a second read for the rest
readDataRetry(r, dataLength) ==
    LET rd == Read(r, dataLength.lo)
        rd2 == Read(rd.rest, dataLength.lo - rd.cnt)
    IN IF rd.err # "nil" THEN RFail(rd)
       ELSE IF dataLength.hi # 0 THEN RErr("invalid header: incorrect data length", rd.rest)
       ELSE IF rd.cnt = dataLength.lo THEN ROk(rd.buf, rd.rest)
       ELSE IF rd2.err # "nil" THEN RFail(rd2)
       ELSE IF rd.cnt + rd2.cnt # dataLength.lo
       THEN RErr("invalid header: incorrect data length", rd2.rest)
       ELSE ROk(BCat(rd.buf, rd2.buf), rd2.rest)

\* (mutant) the length of what was read is not compared with the declared length
readDataUnchecked(r, dataLength) ==
    LET rd == Read(r, dataLength.lo) IN
    IF rd.err # "nil" THEN RFail(rd) ELSE ROk(rd.buf, rd.rest)

\* data := make([]byte, dataLength); actualLen, err := r.Read(data)
readData(r, dataLength) ==
    IF dataLength.hi >= 2 ^ 16
    THEN [kind |-> "panic", why |-> "makeslice: len out of range", data |-> Empty, rest |-> r]
    ELSE LET rd == Read(r, IF dataLength.hi > 0 THEN 2147483647 ELSE dataLength.lo) IN
         IF rd.err # "nil" THEN RFail(rd)
         ELSE IF dataLength.hi # 0 \/ dataLength.lo # rd.cnt
         THEN RErr("invalid header: incorrect data length", rd.rest)
         ELSE ROk(rd.buf, rd.rest)

\* the length and the reserved bytes, w = 8 for a large packet and 4 otherwise
readLength(r, w) ==
    LET r3 == Read(r, w)
        lenBuf == Buf(r3, w)
        dataLength == IF w = 8 THEN Uint64(lenBuf) ELSE [hi |-> 0, lo |-> Uint32(lenBuf, 0)]
        r4 == Read(r3.rest, w)
        reserved == Buf(r4, w)
    IN IF Failed(r3) THEN RFail(r3)
       ELSE IF Failed(r4) THEN RFail(r4)
       ELSE IF reserved # Zeros(w) THEN RErr("invalid header: non-zero reserved bytes", r4.rest)
       ELSE readData(r4.rest, dataLength)

readZabbixMessage(r) ==
    LET r1 == Read(r, 4)
        headerBuf == Buf(r1, 4)
        r2 == Read(r1.rest, 1)
        flags == Buf(r2, 1)[1]
    IN IF Failed(r1) THEN RFail(r1)
       ELSE IF headerBuf # Magic THEN RErr("invalid header", r1.rest)
       ELSE IF Failed(r2) THEN RFail(r2)
       ELSE IF ~ProtocolBit(flags) THEN RErr("invalid header: unknown flags", r2.rest)
       ELSE IF CompressionBit(flags)
       THEN RErr("invalid header: compression is not supported", r2.rest)
       ELSE readLength(r2.rest, IF LargeBit(flags) THEN 8 ELSE 4)

(***************************************************************************)
(* sendZabbixMessage: the bytes handed to w.Write in one call              *)
(***************************************************************************)
\* (mutant) the four reserved bytes are left out of the header
sendZabbixMessageNoReserved(data) ==
    BCat(Bytes(Magic \o <<1>> \o PutUint(BLen(data), 4), 0), data)

\* (mutant) a payload of 64 KiB or more is sent in the large-packet form
sendZabbixMessageLarge(data) ==
    IF BLen(data) < 65536
    THEN BCat(Bytes(Magic \o <<1>> \o PutUint(BLen(data), 4) \o Zeros(4), 0), data)
    ELSE BCat(Bytes(Magic \o <<5>> \o PutUint(BLen(data), 8) \o Zeros(8), 0), data)

sendZabbixMessage(data) ==
    BCat(Bytes(Magic \o <<1>> \o PutUint(BLen(data), 4) \o Zeros(4), 0), data)

(***************************************************************************)
(* What a peer can put on a connection: a frame built field by field       *)
(* (as requestForKey of the tests does), perhaps malformed, made available *)
(* to the reader in one chunk or in two, perhaps without the second one.   *)
(***************************************************************************)
MaxSize == 134217728

Ping == <<97, 103, 101, 110, 116, 46, 112, 105, 110, 103>>   \* "agent.ping"
Hack == <<72, 97, 99, 107>>                                  \* "Hack"

Magics == {Magic, Hack}
FlagValues == {0, 1, 2, 3, 4, 5, 6, 7, 66}
Bodies == {Bytes(Ping, 0), Empty, Bytes(<<>>, MaxSize - 1), Bytes(<<>>, MaxSize)}
\* the declared lengths tried with a body: its own, one more, one less, and over the limit
Declared(body) ==
    {n \in {BLen(body) - 1, BLen(body), BLen(body) + 1} : n >= 0}
        \cup (IF BLen(body) < 20 THEN {128, MaxSize, MaxSize + 1} ELSE {})
Splits == {0, 2, 5, 6, 9, 13, 15}
Ends == {"eof", "open", "reset"}

Requests ==
    {q \in [magic : Magics, flags : FlagValues, len : UNION {Declared(b) : b \in Bodies},
            res : {0, 1}, body : Bodies, split : Splits, cut : BOOLEAN, end : Ends] :
        q.len \in Declared(q.body)}

Width(flags) == IF (flags \div 4) % 2 = 1 THEN 8 ELSE 4

FrameBytes(q) ==
    BCat(Bytes(q.magic \o <<q.flags>> \o PutUint(q.len, Width(q.flags))
                 \o [i \in 1..Width(q.flags) |-> IF i = 2 THEN q.res ELSE 0], 0),
         q.body)

\* bytes all made available at once, or in two chunks cut at sp
Chunked(all, sp) ==
    IF BLen(all) = 0 THEN <<>>
    ELSE IF sp = 0 \/ sp >= BLen(all) THEN <<all>>
    ELSE <<BTake(all, sp), BDrop(all, sp)>>

StreamOf(q) ==
    LET cs == Chunked(FrameBytes(q), q.split)
    IN [chunks |-> IF q.cut /\ Len(cs) = 2 THEN <<cs[1]>> ELSE cs, end |-> q.end]

NoStream == [chunks |-> <<>>, end |-> "open"]

(***************************************************************************)
(* The codec on its own: a peer's bytes are read with readZabbixMessage,   *)
(* or a payload is written with sendZabbixMessage and read back.           *)
(***************************************************************************)
Payloads == Bodies \cup {Bytes(<<123, 125>>, 0), Bytes(<<0, 49, 0>>, 0)}

IdlePassive == proc = "init" /\ conns = <<>> /\ agent = None
IdleActive == session = None /\ sends = <<>> /\ dials = 0 /\ wire = <<>> /\ reg = None /\ links = <<>>

InitCodec ==
    /\ peer \in Requests \cup {None}
    /\ pipe = IF peer = None THEN NoStream ELSE StreamOf(peer)
    /\ sent = None
    /\ got = None
    /\ IdlePassive
    /\ IdleActive

\* sendZabbixMessage(w, data): one Write of the whole frame, which may fail
WriteFrame ==
    /\ peer = None /\ sent = None
    /\ \E data \in Payloads, ok \in BOOLEAN, sp \in Splits, e \in Ends :
         /\ sent' = [kind |-> "sent", data |-> data, ok |-> ok, split |-> sp]
         /\ pipe' = [chunks |-> IF ok THEN Chunked(sendZabbixMessage(data), sp) ELSE <<>>,
                     end |-> e]
    /\ UNCHANGED <<peer, got, proc, conns, session, sends, dials, wire, agent, reg, links>>

ReadFrame ==
    /\ got = None
    /\ peer # None \/ sent # None
    /\ got' = readZabbixMessage(pipe)
    /\ pipe' = got'.rest
    /\ UNCHANGED <<peer, sent, proc, conns, session, sends, dials, wire, agent, reg, links>>

NextCodec == WriteFrame \/ ReadFrame

SpecCodec == InitCodec /\ [][NextCodec]_vars

(***************************************************************************)
(* sendZabbixMessage for a payload of any size a []byte can have.  len(data)*)
(* is an int of 64 bits and is held here in four limbs of 16 bits, least    *)
(* significant first; the payload is some bytes, z zero bytes, and g more   *)
(* blocks of 2^30 zero bytes.                                               *)
(***************************************************************************)
MaxBlocks == 5       \* blocks of 2^30 bytes in a payload

Limb == 2 ^ 16

\* length := len(data)
length(data) ==
    LET small == Len(data.h) + data.z
        l1 == (small \div Limb) + (data.g % 4) * (2 ^ 14)
        l2 == (l1 \div Limb) + (data.g \div 4)
    IN <<small % Limb, l1 % Limb, l2 % Limb, l2 \div Limb>>

\* uint32(length): the low 32 bits
uint32(n) == <<n[1], n[2], 0, 0>>

\* binary.LittleEndian.PutUint32(lenBuf, v)
PutUint32(v) == <<v[1] % 256, v[1] \div 256, v[2] % 256, v[2] \div 256>>

\* the 13 bytes sendZabbixMessage puts before the data
sendHeader(data) == Magic \o <<1>> \o PutUint32(uint32(length(data))) \o Zeros(4)

WideHeads == {<<>>, Ping, <<123, 125>>}
WideZeros == {0, 1, 65535, 65536, MaxSize - 10, MaxSize}

InitWrite ==
    /\ peer = None /\ pipe = NoStream /\ sent = None /\ got = None
    /\ IdlePassive
    /\ IdleActive

\* sendZabbixMessage(w, data): the frame is built and handed to one Write
SendWide ==
    /\ sent = None
    /\ \E h \in WideHeads, z \in WideZeros, g \in 0..MaxBlocks, ok \in BOOLEAN :
         LET data == [h |-> h, z |-> z, g |-> g]
         IN sent' = [kind |-> "sent", data |-> data, ok |-> ok, header |-> sendHeader(data)]
    /\ UNCHANGED <<peer, pipe, got, proc, conns, session, sends, dials, wire, agent, reg, links>>

NextWrite == SendWide

SpecWrite == InitWrite /\ [][NextWrite]_vars

(***************************************************************************)
(* The passive agent: Start, newConnection, consumeReader                  *)
(***************************************************************************)
\* what itemFunc (the value source) does for a key: it returns (value, error), or
\* panics, or does not return
Nil == [t |-> "nil"]
IntV(n) == [t |-> "int", v |-> n]
StrV(s) == [t |-> "string", v |-> s]
BoolV(b) == [t |-> "bool", v |-> b]
ErrV(msg) == [t |-> "error", v |-> msg]

ThisIsAnError ==                                          \* "this is an error"
    <<116, 104, 105, 115, 32, 105, 115, 32, 97, 110, 32, 101, 114, 114, 111, 114>>
Version == <<52, 46, 48, 46, 48>>                         \* "4.0.0"

ItemValues == {IntV(1), IntV(0), IntV(-12), StrV(Version), StrV(<<>>), BoolV(TRUE)}
ItemErrors == {ErrV(ThisIsAnError), ErrV(<<>>)}
ItemResults ==
    {[val |-> v, err |-> e, panics |-> FALSE, hangs |-> FALSE] : v \in ItemValues \cup {Nil}, e \in ItemErrors \cup {Nil}}
        \cup {[val |-> Nil, err |-> Nil, panics |-> TRUE, hangs |-> FALSE],
              [val |-> Nil, err |-> Nil, panics |-> FALSE, hangs |-> TRUE]}

\* the decimal digits of n >= 0
RECURSIVE Digits(_)
Digits(n) == IF n < 10 THEN <<48 + n>> ELSE Digits(n \div 10) \o <<48 + (n % 10)>>

\* fmt.Sprintf("%v", respObj)
Sprintv(v) ==
    CASE v.t = "int" -> IF v.v < 0 THEN <<45>> \o Digits(-v.v) ELSE Digits(v.v)
      [] v.t = "string" -> v.v
      [] v.t = "bool" -> IF v.v THEN <<116, 114, 117, 101>> ELSE <<102, 97, 108, 115, 101>>

NotSupported ==                                           \* "ZBX_NOTSUPPORTED\x00"
    <<90, 66, 88, 95, 78, 79, 84, 83, 85, 80, 80, 79, 82, 84, 69, 68, 0>>
ItemKeyUnknown ==                                         \* "Item key unknown"
    <<73, 116, 101, 109, 32, 107, 101, 121, 32, 117, 110, 107, 110, 111, 119, 110>>

\* (mutant) a nil value is taken for an unknown key before the error is looked at
replyDataNilFirst(item) ==
    IF item.val = Nil THEN NotSupported \o ItemKeyUnknown
    ELSE IF item.err # Nil THEN NotSupported \o item.err.v
    ELSE Sprintv(item.val)

\* (mutant) the reason is appended without the NUL that ends "ZBX_NOTSUPPORTED"
replyDataNoNul(item) ==
    IF item.err # Nil THEN SubSeq(NotSupported, 1, 16) \o item.err.v
    ELSE IF item.val = Nil THEN SubSeq(NotSupported, 1, 16) \o ItemKeyUnknown
    ELSE Sprintv(item.val)

\* the reply payload for what itemFunc returned
replyData(item) ==
    IF item.err # Nil THEN NotSupported \o item.err.v
    ELSE IF item.val = Nil THEN NotSupported \o ItemKeyUnknown
    ELSE Sprintv(item.val)

\* (mutant) the length is written as 4 bytes with no reserved bytes after it
replyFrameShort(data) == Bytes(Magic \o <<1>> \o PutUint(Len(data), 4) \o data, 0)

\* "ZBXD\x01", the length as 8 little-endian bytes, the data
replyFrame(data) == Bytes(Magic \o <<1>> \o PutUint(Len(data), 8) \o data, 0)

CNil(rest) == [kind |-> "nil", reply |-> Empty, called |-> FALSE, key |-> Empty, rest |-> rest]
\* a Read error makes consumeReader return nil; a Read that never returns blocks it
CFail(rd) == IF rd.err = "block" THEN [CNil(rd.rest) EXCEPT !.kind = "block"] ELSE CNil(rd.rest)

\* respObj, err := itemFunc(key) and the reply built from it
dispatch(key, item, rest) ==
    IF item.panics
    THEN [kind |-> "panic", reply |-> Empty, called |-> TRUE, key |-> key, rest |-> rest]
    ELSE IF item.hangs
    THEN [kind |-> "block", reply |-> Empty, called |-> TRUE, key |-> key, rest |-> rest]
    ELSE [kind |-> "reply", reply |-> replyFrame(replyData(item)), called |-> TRUE,
          key |-> key, rest |-> rest]

\* the key: keyBuf := make([]byte, dataLength); realLen, err := r.Read(keyBuf)
readKey(r, dataLength, item) ==
    LET r5 == Read(r, dataLength) IN
    IF Failed(r5) THEN CFail(r5)
    ELSE IF r5.cnt # dataLength THEN CNil(r5.rest)
    ELSE dispatch(r5.buf, item, r5.rest)

consumeReader(r, item) ==
    LET r1 == Read(r, 4)
        headerBuf == Buf(r1, 4)
        r2 == Read(r1.rest, 1)
        flagsBuf == Buf(r2, 1)
        r3 == Read(r2.rest, 4)
        dataLength == Uint32(Buf(r3, 4), 0)
        r4 == Read(r3.rest, 4)
    IN IF Failed(r1) THEN CFail(r1)
       ELSE IF headerBuf # Magic THEN CNil(r1.rest)
       ELSE IF Failed(r2) THEN CFail(r2)
       ELSE IF flagsBuf # <<1>> THEN CNil(r2.rest)
       ELSE IF Failed(r3) THEN CFail(r3)
       ELSE IF dataLength >= MaxSize THEN CNil(r3.rest)
       ELSE IF Failed(r4) THEN CFail(r4)
       ELSE readKey(r4.rest, dataLength, item)

\* itemFunc's result and the outcome of the Write matter only when the request gets that far
Unknown == [val |-> Nil, err |-> Nil, panics |-> FALSE, hangs |-> FALSE]
ItemChoices(r) == IF consumeReader(r, Unknown).called THEN ItemResults ELSE {Unknown}
WriteChoices(r) == IF consumeReader(r, Unknown).called THEN BOOLEAN ELSE {TRUE}

\* the address argument: one net.Listen can bind unless it is in use, one it cannot resolve
Bindable == ":10050"
Addresses == {Bindable, "nowhere:port"}

\* the call Start(itemFunc, address): its arguments, its listener, the error it returned
Started(f, a, l, r) == [kind |-> "start", itemFunc |-> f, address |-> a, listener |-> l, ret |-> r]

\* an accepted connection carrying request q
Accepted(q) ==
    [st |-> "accepted", req |-> q, in |-> StreamOf(q), writes |-> <<>>, werr |-> FALSE,
     item |-> None, key |-> None]

\* (mutant) the connection is closed only when the reply was written
connStateKeptOnWriteError(kind, wok) ==
    CASE kind = "block" -> "blocked"
      [] kind = "panic" -> "aborted"
      [] kind = "reply" /\ ~wok -> "open"
      [] OTHER -> "closed"

\* where newConnection leaves the connection: conn.Close() follows consumeReader and
\* the Write whatever they gave, unless the goroutine never got that far
connState(kind, wok) ==
    CASE kind = "block" -> "blocked"
      [] kind = "panic" -> "aborted"
      [] OTHER -> "closed"

\* go newConnection(itemFunc, conn): consumeReader, one Write of the reply, Close.
\* A panic of itemFunc is not recovered in the goroutine: it ends the process,
\* and with it every connection that is still open.
newConnection(c) ==
    /\ proc \in {"listening", "returned"}
    /\ c \in DOMAIN conns
    /\ conns[c].st = "accepted"
    /\ \E item \in ItemChoices(conns[c].in), wok \in WriteChoices(conns[c].in) :
         LET res == consumeReader(conns[c].in, item)
             after == [conns[c] EXCEPT !.in = res.rest,
                                       !.item = IF res.called THEN item ELSE None,
                                       !.key = IF res.called THEN res.key ELSE None]
         IN CASE res.kind = "block" ->
                   /\ conns' = [conns EXCEPT ![c] = [after EXCEPT !.st = connState(res.kind, wok)]]
                   /\ proc' = proc
              [] res.kind = "nil" ->
                   /\ conns' = [conns EXCEPT ![c] = [after EXCEPT !.st = connState(res.kind, wok)]]
                   /\ proc' = proc
              [] res.kind = "reply" ->
                   /\ conns' = [conns EXCEPT ![c] =
                                  [after EXCEPT !.st = connState(res.kind, wok),
                                                !.writes = Append(@, res.reply),
                                                !.werr = ~wok]]
                   /\ proc' = proc
              [] res.kind = "panic" ->
                   /\ conns' = [d \in DOMAIN conns |->
                                  IF d = c THEN [after EXCEPT !.st = connState(res.kind, wok)]
                                  ELSE IF conns[d].st \in {"accepted", "blocked"}
                                       THEN [conns[d] EXCEPT !.st = "aborted"]
                                       ELSE conns[d]]
                   /\ proc' = "panicked"
    /\ UNCHANGED <<peer, pipe, sent, got, session, sends, dials, wire, agent, reg, links>>

IdleCodec == peer = None /\ pipe = NoStream /\ sent = None /\ got = None

(***************************************************************************)
(* One request, whatever the peer sent: given to readZabbixMessage and, on *)
(* an accepted connection, to newConnection                                *)
(***************************************************************************)
InitHandler ==
    /\ peer \in Requests
    /\ pipe = StreamOf(peer)
    /\ sent = None
    /\ got = None
    /\ proc = "listening"
    /\ conns = <<Accepted(peer)>>
    /\ agent = Started("func", Bindable, "open", "none")
    /\ IdleActive

NextHandler == ReadFrame \/ newConnection(1)

SpecHandler == InitHandler /\ [][NextHandler]_vars

(***************************************************************************)
(* The agent process: Start, its accept loop and the connections it serves *)
(***************************************************************************)
MaxConns == 2

\* a request for "agent.ping", all of it available or only its first five bytes
PingRequest(sp, ct, e) ==
    [magic |-> Magic, flags |-> 1, len |-> Len(Ping), res |-> 0, body |-> Bytes(Ping, 0),
     split |-> sp, cut |-> ct, end |-> e]

AgentRequests ==
    {PingRequest(0, FALSE, "eof"), PingRequest(5, TRUE, "open"),
     [PingRequest(0, FALSE, "eof") EXCEPT !.magic = Hack]}

\* (mutant) the listener is opened before itemFunc is looked at
startOutcomeListenFirst(nilFunc, address, listenOk) ==
    IF ~listenOk \/ address # Bindable
    THEN [proc |-> "returned", agent |-> Started(IF nilFunc THEN "nil" ELSE "func", address, "failed", "listen error")]
    ELSE IF nilFunc THEN [proc |-> "panicked", agent |-> Started("nil", address, "open", "none")]
    ELSE [proc |-> "listening", agent |-> Started("func", address, "open", "none")]

\* Start up to its loop: the nil check, then net.Listen("tcp", address)
startOutcome(nilFunc, address, listenOk) ==
    IF nilFunc THEN [proc |-> "panicked", agent |-> Started("nil", address, "none", "none")]
    ELSE IF ~listenOk \/ address # Bindable
    THEN [proc |-> "returned", agent |-> Started("func", address, "failed", "listen error")]
    ELSE [proc |-> "listening", agent |-> Started("func", address, "open", "none")]

\* Start(itemFunc, address): panics on a nil itemFunc, returns the error of net.Listen
Start ==
    /\ proc = "init"
    /\ \E nilFunc \in BOOLEAN, address \in Addresses, listenOk \in BOOLEAN :
         /\ proc' = startOutcome(nilFunc, address, listenOk).proc
         /\ agent' = startOutcome(nilFunc, address, listenOk).agent
    /\ UNCHANGED <<peer, pipe, sent, got, conns, session, sends, dials, wire, reg, links>>

\* (mutant) newConnection(itemFunc, conn) is called in the accept loop itself
acceptLoopFreeInline ==
    \A c \in DOMAIN conns : conns[c].st \notin {"accepted", "blocked"}

\* go newConnection(itemFunc, conn): the loop goes back to l.Accept() at once,
\* whatever the connections accepted before are doing
acceptLoopFree == TRUE

\* conn, err := l.Accept() with err == nil; go newConnection(itemFunc, conn)
Accept ==
    /\ proc = "listening"
    /\ acceptLoopFree
    /\ Len(conns) < MaxConns
    /\ \E q \in AgentRequests : conns' = Append(conns, Accepted(q))
    /\ UNCHANGED <<peer, pipe, sent, got, proc, session, sends, dials, wire, agent, reg, links>>

\* conn, err := l.Accept() with err != nil: Start returns err
AcceptFail ==
    /\ proc = "listening"
    /\ proc' = "returned"
    /\ agent' = [agent EXCEPT !.ret = "accept error"]
    /\ UNCHANGED <<peer, pipe, sent, got, conns, session, sends, dials, wire, reg, links>>

\* what the agent's itemFunc does with a key: a value, an error, no value, a panic,
\* or a call that does not return
AgentItems ==
    {[val |-> IntV(1), err |-> Nil, panics |-> FALSE, hangs |-> FALSE],
     [val |-> Nil, err |-> ErrV(ThisIsAnError), panics |-> FALSE, hangs |-> FALSE],
     [val |-> Nil, err |-> Nil, panics |-> FALSE, hangs |-> FALSE],
     [val |-> Nil, err |-> Nil, panics |-> TRUE, hangs |-> FALSE],
     [val |-> Nil, err |-> Nil, panics |-> FALSE, hangs |-> TRUE]}

\* the goroutine of an accepted connection runs newConnection with that itemFunc
Serve ==
    \E c \in 1..MaxConns :
        /\ newConnection(c)
        /\ conns'[c].item \in AgentItems \cup {None}

InitAgent == IdleCodec /\ IdlePassive /\ IdleActive

NextAgent == Start \/ Accept \/ AcceptFail \/ Serve

SpecAgent == InitAgent /\ [][NextAgent]_vars

(***************************************************************************)
(* The active session: startActiveSession and ActiveSession.Send           *)
(***************************************************************************)
MaxDials == 3        \* calls of dialFunc in one run
MaxCallers == 1      \* callers of Send on the session

Callers == 1..MaxCallers
Registered == 1000   \* an item id the collector knows
Foreign == Registered + 1000   \* an item id the caller may push whether or not it was registered

\* the data of the collector's answer to "active checks": the item ids, in order
ItemLists == {<<>>, <<Registered>>, <<Registered, Foreign>>}
SessionIds == {"0f1e2d3c", "a1b2c3d4"}

\* the collector's answer as readZabbixMessage and json.Unmarshal see it
Replies ==
    {[codec |-> "err", json |-> "", response |-> "", info |-> ""],
     [codec |-> "ok", json |-> "err", response |-> "", info |-> ""],
     [codec |-> "ok", json |-> "ok", response |-> "success", info |-> "processed: 1"],
     [codec |-> "ok", json |-> "ok", response |-> "failed", info |-> "host not found"],
     [codec |-> "ok", json |-> "ok", response |-> "failed", info |-> ""]}

\* (mutant) an assignment to the map is lost
StoreNothing(m, k, v) == m

\* a Go map[int]int: indexing a missing key yields 0
Lookup(m, k) == IF k \in DOMAIN m THEN m[k] ELSE 0
Store(m, k, v) == [x \in DOMAIN m \cup {k} |-> IF x = k THEN v ELSE m[x]]

\* (mutant) the counters start at the zero value
newItemIdxZero(items) == [x \in {items[k] : k \in DOMAIN items} |-> 0]

\* itemIdx := map[int]int{}; for _, item := range reply.Data { itemIdx[item.ItemId] = 1 }
RECURSIVE newItemIdx(_)
newItemIdx(items) ==
    IF items = <<>> THEN <<>>
    ELSE Store(newItemIdx(SubSeq(items, 1, Len(items) - 1)), items[Len(items)], 1)

\* (mutant) the counter is stored back unchanged
nextIdxSame(idx) == idx

\* idx + 1
nextIdx(idx) == idx + 1

\* a Send call: call is the ordinal of its dial, conn the connection it was given (0: none)
\* overlapped: another Send was past its dial while this one had not yet written;
\* base: the counters as they were when the call was made
IdleSend == [pc |-> "idle", todo |-> <<>>, idx |-> 0, data |-> <<>>, ret |-> "none",
             call |-> 0, conn |-> 0, reply |-> None, overlapped |-> FALSE, base |-> <<>>]

\* the Send call numbered call has returned ret, after the reply it read (None: it read none)
Returns(call, ret, reply) == [IdleSend EXCEPT !.ret = ret, !.call = call, !.reply = reply]

\* a connection dialFunc returned to call number call: the frames written to it and
\* read from it so far, and whether Close was called on it
Link(who, call, writes, reads) ==
    [who |-> who, call |-> call, writes |-> writes, reads |-> reads, closed |-> FALSE]

\* what startActiveSession returns: (*ActiveSession, []SupportedItem, error)
RegRet(hasSession, items, err) ==
    [session |-> hasSession, items |-> items, itemsNil |-> ~hasSession, err |-> err]

\* (mutant) the response field of the reply is not looked at
regResultAnyResponse(dialOk, writeOk, reply, items) ==
    IF ~dialOk THEN RegRet(FALSE, <<>>, "dial error")
    ELSE IF ~writeOk THEN RegRet(FALSE, <<>>, "write error")
    ELSE IF reply.codec # "ok" THEN RegRet(FALSE, <<>>, "read error")
    ELSE IF reply.json # "ok" THEN RegRet(FALSE, <<>>, "json error")
    ELSE RegRet(TRUE, items, "nil")

\* (mutant) the items come back in the reverse of the reply's order
regResultReversed(dialOk, writeOk, reply, items) ==
    IF dialOk /\ writeOk /\ reply.codec = "ok" /\ reply.json = "ok" /\ reply.response = "success"
    THEN RegRet(TRUE, [k \in DOMAIN items |-> items[Len(items) + 1 - k]], "nil")
    ELSE RegRet(FALSE, <<>>, "error")

\* the return statements of startActiveSession, in order
regResult(dialOk, writeOk, reply, items) ==
    IF ~dialOk THEN RegRet(FALSE, <<>>, "dial error")
    ELSE IF ~writeOk THEN RegRet(FALSE, <<>>, "write error")
    ELSE IF reply.codec # "ok" THEN RegRet(FALSE, <<>>, "read error")
    ELSE IF reply.json # "ok" THEN RegRet(FALSE, <<>>, "json error")
    ELSE IF reply.response # "success"
    THEN RegRet(FALSE, <<>>, "unsuccessful response to active checks query")
    ELSE RegRet(TRUE, items, "nil")

\* the call of startActiveSession as far as it got: what the dial, the write and the
\* read gave it, and what it returned
RegCall(dialOk, writeOk, reply, items) ==
    [kind |-> "reg",
     dialOk |-> dialOk,
     writeOk |-> dialOk /\ writeOk,
     reply |-> IF dialOk /\ writeOk THEN reply ELSE None,
     data |-> IF dialOk /\ writeOk /\ reply.codec = "ok" /\ reply.json = "ok" THEN items ELSE <<>>,
     ret |-> regResult(dialOk, writeOk, reply, items)]

InitActive ==
    /\ IdleCodec
    /\ IdlePassive
    /\ session = None
    /\ sends = [t \in Callers |-> IdleSend]
    /\ dials = 0
    /\ wire = <<>>
    /\ reg = None
    /\ links = <<>>

\* startActiveSession(agentHostname, dialFunc)
Register ==
    /\ session = None
    /\ dials < MaxDials
    /\ dials' = dials + 1
    /\ \E dialOk \in BOOLEAN, writeOk \in BOOLEAN, reply \in Replies,
          items \in ItemLists, sid \in SessionIds :
         /\ reg' = RegCall(dialOk, writeOk, reply, items)
         /\ session' = IF reg'.ret.session
                        THEN [kind |-> "session", session |-> sid, hostname |-> "myserver.example.com",
                              dialFunc |-> "dialFunc",
                              itemIdx |-> newItemIdx(reg'.ret.items), items |-> reg'.ret.items]
                        ELSE None
         /\ links' = IF dialOk
                      THEN Append(links, Link("register", dials', 1, IF writeOk THEN 1 ELSE 0))
                      ELSE links
    /\ UNCHANGED <<peer, pipe, sent, got, proc, conns, sends, wire, agent>>

\* the orders in which range may visit the keys of values
ValueOrders ==
    {<<>>, <<Registered>>, <<Foreign>>, <<Registered, Foreign>>, <<Foreign, Registered>>}

\* a Send call of another caller is in progress
Busy(t) == \E u \in DOMAIN sends \ {t} : sends[u].pc \notin {"idle", "dead"}

\* s.Send(values): conn, err := s.dialFunc()
SendCall(t) ==
    /\ session # None
    /\ sends[t].pc = "idle"
    /\ dials < MaxDials
    /\ dials' = dials + 1
    /\ \E dialOk \in BOOLEAN, order \in ValueOrders :
         /\ links' = IF dialOk THEN Append(links, Link("send", dials', 0, 0)) ELSE links
         /\ sends' = [u \in DOMAIN sends |->
                        IF u = t
                        THEN IF ~dialOk THEN Returns(dials', "dial error", None)
                             ELSE [IdleSend EXCEPT !.pc = IF order = <<>> THEN "write" ELSE "load",
                                                   !.todo = order,
                                                   !.call = dials',
                                                   !.conn = Len(links'),
                                                   !.overlapped = Busy(t),
                                                   !.base = session.itemIdx]
                        ELSE IF dialOk /\ sends[u].pc \in {"load", "store", "write"}
                        THEN [sends[u] EXCEPT !.overlapped = TRUE]
                        ELSE sends[u]]
    /\ UNCHANGED <<peer, pipe, sent, got, proc, conns, session, wire, agent, reg>>

\* idx := s.itemIdx[itemId]
SendLoad(t) ==
    /\ sends[t].pc = "load"
    /\ sends' = [sends EXCEPT ![t].idx = Lookup(session.itemIdx, Head(sends[t].todo)),
                              ![t].pc = "store"]
    /\ UNCHANGED <<peer, pipe, sent, got, proc, conns, session, dials, wire, agent, reg, links>>

\* (mutant) the assignment advances every counter of the session
SendStoreAll(t) ==
    /\ sends[t].pc = "store"
    /\ session' = [session EXCEPT !.itemIdx =
                     [x \in DOMAIN @ \cup {Head(sends[t].todo)} |->
                        IF x = Head(sends[t].todo) THEN nextIdx(sends[t].idx) ELSE @[x] + 1]]
    /\ sends' = [sends EXCEPT ![t].data = Append(@, [itemid |-> Head(sends[t].todo),
                                                    id |-> sends[t].idx]),
                              ![t].todo = Tail(@),
                              ![t].pc = IF Tail(sends[t].todo) = <<>> THEN "write" ELSE "load"]
    /\ UNCHANGED <<peer, pipe, sent, got, proc, conns, dials, wire, agent, reg, links>>

\* s.itemIdx[itemId] = idx + 1; request.Data = append(request.Data, activeCheckData{Id: idx, ...})
SendStore(t) ==
    /\ sends[t].pc = "store"
    /\ session' = [session EXCEPT !.itemIdx = Store(@, Head(sends[t].todo), nextIdx(sends[t].idx))]
    /\ sends' = [sends EXCEPT ![t].data = Append(@, [itemid |-> Head(sends[t].todo),
                                                    id |-> sends[t].idx]),
                              ![t].todo = Tail(@),
                              ![t].pc = IF Tail(sends[t].todo) = <<>> THEN "write" ELSE "load"]
    /\ UNCHANGED <<peer, pipe, sent, got, proc, conns, dials, wire, agent, reg, links>>

\* (mutant) Send keeps using the first connection that was dialled
connOfFirst(t) == 1

\* conn: the connection the call's own s.dialFunc() returned
connOf(t) == sends[t].conn

\* (mutant) a failed write gives the batch's sequence ids back
SendWriteUndo(t) ==
    /\ sends[t].pc = "write"
    /\ \E ok \in BOOLEAN :
         /\ wire' = Append(wire, [by |-> t, session |-> session.session,
                                  data |-> sends[t].data, ok |-> ok,
                                  call |-> sends[t].call, conn |-> connOf(t),
                                  overlapped |-> sends[t].overlapped])
         /\ links' = [links EXCEPT ![connOf(t)].writes = @ + 1]
         /\ sends' = [sends EXCEPT ![t] =
                        IF ok THEN [@ EXCEPT !.pc = "read"]
                        ELSE Returns(sends[t].call, "write error", None)]
         /\ session' = IF ok THEN session
                        ELSE [session EXCEPT !.itemIdx =
                                [x \in DOMAIN @ |->
                                   IF \E k \in DOMAIN sends[t].data : sends[t].data[k].itemid = x
                                   THEN @[x] - 1 ELSE @[x]]]
    /\ UNCHANGED <<peer, pipe, sent, got, proc, conns, dials, agent, reg>>

\* sendZabbixMessage(conn, data): the batch is handed to the connection, the Write may fail
SendWrite(t) ==
    /\ sends[t].pc = "write"
    /\ \E ok \in BOOLEAN :
         /\ wire' = Append(wire, [by |-> t, session |-> session.session,
                                  data |-> sends[t].data, ok |-> ok,
                                  call |-> sends[t].call, conn |-> connOf(t),
                                  overlapped |-> sends[t].overlapped])
         /\ links' = [links EXCEPT ![connOf(t)].writes = @ + 1]
         /\ sends' = [sends EXCEPT ![t] =
                        IF ok THEN [@ EXCEPT !.pc = "read"]
                        ELSE Returns(sends[t].call, "write error", None)]
    /\ UNCHANGED <<peer, pipe, sent, got, proc, conns, session, dials, agent, reg>>

\* (mutant) a reply that parses counts as accepted whatever its response field
sendResultAnyResponse(reply) ==
    IF reply.codec # "ok" THEN "read error"
    ELSE IF reply.json # "ok" THEN "json error"
    ELSE "nil"

\* what Send returns for the collector's reply
sendResult(reply) ==
    IF reply.codec # "ok" THEN "read error"
    ELSE IF reply.json # "ok" THEN "json error"
    ELSE IF reply.response = "success" THEN "nil"
    ELSE IF reply.info = "" THEN "send error: unrecognized reply from server"
    ELSE "send error: " \o reply.info

\* readZabbixMessage(conn), json.Unmarshal, reply.Response
SendReply(t) ==
    /\ sends[t].pc = "read"
    /\ \E reply \in Replies :
         sends' = [sends EXCEPT ![t] = Returns(sends[t].call, sendResult(reply), reply)]
    /\ links' = [links EXCEPT ![connOf(t)].reads = @ + 1]
    /\ UNCHANGED <<peer, pipe, sent, got, proc, conns, session, dials, wire, agent, reg>>

SendStep(t) == SendLoad(t) \/ SendStore(t) \/ SendWrite(t) \/ SendReply(t)

\* no Send call is in progress
Quiet == \A t \in Callers : sends[t].pc = "idle"

(***************************************************************************)
(* Single-writer use of a session: Send calls that do not overlap          *)
(***************************************************************************)
SendAlone == \E t \in Callers : Quiet /\ SendCall(t)
SendOn == \E t \in Callers : SendStep(t)

NextSession == Register \/ SendAlone \/ SendOn

SpecSession == InitActive /\ [][NextSession]_vars

(***************************************************************************)
(* Send calls from several goroutines on one session: s.itemIdx is read and *)
(* written with no lock                                                     *)
(***************************************************************************)
\* the two goroutines that call Send on the session
Racers == {1, 2}

\* the run starts with the session a successful startActiveSession returned for
\* the item list <<Registered>>, which leaves Foreign without a counter; dials and
\* links count the calls of Send from there
InitRace ==
    /\ IdleCodec
    /\ IdlePassive
    /\ session = [kind |-> "session", session |-> "0f1e2d3c", hostname |-> "myserver.example.com",
                  dialFunc |-> "dialFunc",
                  itemIdx |-> newItemIdx(<<Registered>>), items |-> <<Registered>>]
    /\ sends = [t \in Racers |-> IdleSend]
    /\ dials = 0
    /\ wire = <<>>
    /\ reg = None
    /\ links = <<>>

\* the connections work and the collector accepts every batch: the failures of a
\* Send are those of SpecSession, and its counter loop does not depend on them
\* the goroutines are alike: the next call is made by the first one that is free
SendAny ==
    \E t \in Racers :
        /\ \A u \in 1..(t - 1) : sends[u].pc # "idle"
        /\ SendCall(t)
        /\ sends'[t].pc = "load"
SendRace ==
    \E t \in Racers :
        \/ SendLoad(t)
        \/ SendStore(t)
        \/ SendWrite(t) /\ wire'[Len(wire')].ok
        \/ SendReply(t) /\ sends'[t].ret = "nil"

\* an assignment to s.itemIdx by one goroutine at the same time as an access by
\* another is a data race; the runtime may detect it and end the process with
\* "fatal error: concurrent map writes" (or "concurrent map read and map write")
SendFatal ==
    /\ \E t, u \in Racers :
          t # u /\ sends[t].pc = "store" /\ sends[u].pc \in {"load", "store"}
    /\ sends' = [t \in Racers |-> [sends[t] EXCEPT !.pc = "dead"]]
    /\ UNCHANGED <<peer, pipe, sent, got, proc, conns, session, dials, wire, agent, reg, links>>

NextRace == SendAny \/ SendRace \/ SendFatal

SpecRace == InitRace /\ [][NextRace]_vars

(***************************************************************************)
(* Properties                                                              *)
(***************************************************************************)
HeaderLen(q) == 5 + 2 * Width(q.flags)
Total(q) == HeaderLen(q) + BLen(q.body)

\* every header field of q is available in full to the Read that asks for it
HeaderWhole(q) ==
    \/ q.split = 0
    \/ q.split >= HeaderLen(q)
    \/ q.split \in {4, 5, 5 + Width(q.flags)} /\ ~q.cut

\* the header fields and the payload of q are each available in full to their Read
Whole(q) ==
    \/ q.split = 0
    \/ q.split >= Total(q)
    \/ q.split \in {4, 5, 5 + Width(q.flags), HeaderLen(q)} /\ ~q.cut

\* the payload bytes of q that the stream delivers
Delivered(q) ==
    IF q.split = 0 \/ q.split >= Total(q) \/ ~q.cut THEN BLen(q.body)
    ELSE IF q.split >= HeaderLen(q) THEN q.split - HeaderLen(q) ELSE 0

\* a request the protocol allows, available in full
WellFormed(q) ==
    /\ q.magic = Magic /\ q.flags = 1 /\ q.res = 0
    /\ q.len = BLen(q.body) /\ q.len < MaxSize
    /\ Whole(q)

\* the written frame reaches the reader with every field and the payload in one piece
SentWhole ==
    /\ sent # None /\ sent.ok
    /\ sent.split \in {0, 4, 5, 9, 13} \/ sent.split >= 13 + BLen(sent.data)

Handled(c) == conns[c].st # "accepted"
Returned(c, item) == Handled(c) /\ conns[c].item = item

\* C1: a payload written with sendZabbixMessage and read back with
\* readZabbixMessage, every field of the frame arriving in one piece, comes
\* back unchanged and without error.
C1_RoundTrip == (SentWhole /\ got # None) => (got.kind = "ok" /\ got.data = sent.data)

C1_Witness ==
    /\ SentWhole /\ got # None /\ got.kind = "ok"
    /\ sent.data = Bytes(Ping, 0) /\ got.data = Bytes(Ping, 0)

\* the string forms of the values of ItemValues, written out
StringForm(v) ==
    CASE v = IntV(1) -> <<49>>
      [] v = IntV(0) -> <<48>>
      [] v = IntV(-12) -> <<45, 49, 50>>
      [] v = StrV(Version) -> <<52, 46, 48, 46, 48>>
      [] v = StrV(<<>>) -> <<>>
      [] v = BoolV(TRUE) -> <<116, 114, 117, 101>>

\* 5A 42 58 44 01 01 00 00 00 00 00 00 00 31
PingReply == <<90, 66, 88, 68, 1, 1, 0, 0, 0, 0, 0, 0, 0, 49>>

\* C2: a well-formed request whose key itemFunc resolves to a value v, with no
\* error, reaches itemFunc with the payload as key and is answered with one
\* frame whose payload is the string form of v; the value 1 gives the bytes
\* 5A 42 58 44 01 01 00 00 00 00 00 00 00 31.
C2_ValueReply ==
    \A c \in DOMAIN conns :
        (Handled(c) /\ WellFormed(conns[c].req)) =>
            /\ conns[c].item # None
            /\ conns[c].key = conns[c].req.body
            /\ (~conns[c].item.panics /\ conns[c].item.err = Nil /\ conns[c].item.val # Nil) =>
                   /\ conns[c].st = "closed"
                   /\ conns[c].writes
                        = <<sendZabbixMessage(Bytes(StringForm(conns[c].item.val), 0))>>
                   /\ conns[c].item.val = IntV(1) => ToSeq(conns[c].writes[1]) = PingReply

C2_Witness ==
    /\ Returned(1, [val |-> IntV(1), err |-> Nil, panics |-> FALSE, hangs |-> FALSE])
    /\ WellFormed(conns[1].req)
    /\ conns[1].key = Bytes(Ping, 0)
    /\ Len(conns[1].writes) = 1

\* the reply of TestUnknownKey: "ZBX_NOTSUPPORTED\x00Item key unknown" in a frame
UnknownReply ==
    <<90, 66, 88, 68, 1, 33, 0, 0, 0, 0, 0, 0, 0,
      90, 66, 88, 95, 78, 79, 84, 83, 85, 80, 80, 79, 82, 84, 69, 68, 0,
      73, 116, 101, 109, 32, 107, 101, 121, 32, 117, 110, 107, 110, 111, 119, 110>>

\* C3: a well-formed request whose key itemFunc reports as unknown (nil, nil) is
\* answered with one frame whose payload is "ZBX_NOTSUPPORTED", NUL,
\* "Item key unknown".
C3_UnknownReply ==
    \A c \in DOMAIN conns :
        (WellFormed(conns[c].req) /\ Returned(c, Unknown)) =>
            /\ conns[c].st = "closed"
            /\ conns[c].writes = <<Bytes(UnknownReply, 0)>>

C3_Witness ==
    /\ WellFormed(conns[1].req) /\ Returned(1, Unknown)
    /\ conns[1].key = Bytes(Ping, 0)
    /\ Len(conns[1].writes) = 1

\* the reply of TestAgentError: "ZBX_NOTSUPPORTED\x00this is an error" in a frame
ErrorReply ==
    <<90, 66, 88, 68, 1, 33, 0, 0, 0, 0, 0, 0, 0,
      90, 66, 88, 95, 78, 79, 84, 83, 85, 80, 80, 79, 82, 84, 69, 68, 0,
      116, 104, 105, 115, 32, 105, 115, 32, 97, 110, 32, 101, 114, 114, 111, 114>>

\* C4: a well-formed request whose key itemFunc answers with an error, whatever
\* value comes with it, is answered with one frame whose payload is
\* "ZBX_NOTSUPPORTED", NUL, the error's message.
C4_ErrorReply ==
    \A c \in DOMAIN conns :
        (Handled(c) /\ WellFormed(conns[c].req) /\ conns[c].item # None
            /\ conns[c].item.err # Nil) =>
            /\ conns[c].st = "closed"
            /\ conns[c].writes
                 = <<sendZabbixMessage(Bytes(NotSupported \o conns[c].item.err.v, 0))>>
            /\ conns[c].item.err = ErrV(ThisIsAnError)
                 => conns[c].writes = <<Bytes(ErrorReply, 0)>>

C4_Witness ==
    /\ WellFormed(conns[1].req)
    /\ Returned(1, [val |-> IntV(1), err |-> ErrV(ThisIsAnError), panics |-> FALSE, hangs |-> FALSE])
    /\ conns[1].writes = <<Bytes(ErrorReply, 0)>>

\* C5: when itemFunc panics for a key, the client gets the reply of an unknown
\* key and the process keeps serving.
C5_PanicContained ==
    \A c \in DOMAIN conns :
        (conns[c].item # None /\ conns[c].item.panics) =>
            /\ conns[c].writes = <<Bytes(UnknownReply, 0)>>
            /\ proc # "panicked"

\* C6: a request that readZabbixMessage rejects gets no byte written on its
\* connection.
C6_NoReplyOnReject ==
    (got # None /\ got.kind = "err" /\ Handled(1)) => (conns[1].writes = <<>> \/ conns[1].werr)

\* C7: readZabbixMessage returns no payload for a frame that declares 128 MiB
\* or more, in the 4-byte and in the 8-byte form, whatever bytes follow.
C7_OversizeRejected ==
    (peer # None /\ got # None /\ HeaderWhole(peer) /\ peer.len >= MaxSize)
        => got.kind # "ok"

RECURSIVE Entries(_)
Entries(w) == IF w = <<>> THEN <<>> ELSE Entries(SubSeq(w, 1, Len(w) - 1)) \o w[Len(w)].data

\* the sequence ids given to item i so far, in order
IdsOf(i) == LET es == SelectSeq(Entries(wire), LAMBDA e : e.itemid = i)
            IN [k \in DOMAIN es |-> es[k].id]

ItemsOf(items) == {items[k] : k \in DOMAIN items}

\* no Send has got past its dial yet
Fresh == Quiet /\ wire = <<>>

C10_IdsStepByOne ==
    \A i \in {Registered, Foreign} :
        \A k \in 2..Len(IdsOf(i)) : IdsOf(i)[k] = IdsOf(i)[k - 1] + 1

C10_Witness ==
    /\ Len(wire) = 2 /\ Quiet
    /\ Len(IdsOf(Registered)) = 2 /\ Len(IdsOf(Foreign)) = 2
    /\ IdsOf(Foreign) = <<0, 1>>

\* the collector's reply was read, parsed, and carries this response
Parsed(reply) == reply # None /\ reply.codec = "ok" /\ reply.json = "ok"
Success(reply) == Parsed(reply) /\ reply.response = "success"

\* C11: a registration answered with "success" and item list L returns a session,
\* no error and the list L in the same order, and the session has a counter for
\* exactly the item ids of L.
C11_RegistrationSucceeds ==
    (reg # None /\ Success(reg.reply)) =>
        /\ reg.ret.session /\ reg.ret.err = "nil"
        /\ reg.ret.items = reg.data
        /\ session # None
        /\ session.items = reg.data
        /\ Fresh => DOMAIN session.itemIdx = ItemsOf(reg.data)

C11_Witness ==
    /\ reg # None /\ Success(reg.reply)
    /\ reg.data = <<Registered, Foreign>>
    /\ session # None /\ Fresh
    /\ DOMAIN session.itemIdx = {Registered, Foreign}

\* C12: a registration whose dial fails, whose request cannot be written, whose
\* reply the codec rejects, whose reply is not JSON or whose response is not
\* "success" returns an error, a nil session and nil items.
C12_RegistrationFails ==
    (reg # None /\ ~Success(reg.reply)) =>
        /\ ~reg.ret.session /\ reg.ret.itemsNil /\ reg.ret.items = <<>>
        /\ reg.ret.err \notin {"nil", "none", ""}
        /\ session = None

C12_Witness ==
    /\ reg # None /\ Parsed(reg.reply)
    /\ reg.reply.response = "failed"
    /\ reg.data = <<Registered>>
    /\ ~reg.ret.session /\ session = None

\* the Send call of caller t has returned
HasReturned(t) == sends[t].pc = "idle" /\ sends[t].ret # "none"
\* the frame the call numbered c handed to its connection could not be written
WriteFailed(c) == \E k \in DOMAIN wire : wire[k].call = c /\ ~wire[k].ok
\* the call numbered c got no connection from dialFunc
DialFailed(c) == \A i \in DOMAIN links : links[i].call # c

\* C13: Send returns nil exactly when the reply parses with response "success";
\* for another parsed reply the error text carries info, or "unrecognized reply"
\* when info is empty; a failed dial, write, read or parse is returned as an error.
C13_SendResult ==
    \A t \in Callers : HasReturned(t) =>
        /\ sends[t].ret = "nil" <=> Success(sends[t].reply)
        /\ (Parsed(sends[t].reply) /\ ~Success(sends[t].reply)) =>
              sends[t].ret = IF sends[t].reply.info = ""
                             THEN "send error: unrecognized reply from server"
                             ELSE "send error: " \o sends[t].reply.info
        /\ (DialFailed(sends[t].call) \/ WriteFailed(sends[t].call)) =>
              sends[t].ret \notin {"nil", ""} /\ sends[t].reply = None

C13_Witness ==
    \E t \in Callers :
        /\ HasReturned(t)
        /\ Parsed(sends[t].reply) /\ sends[t].reply.response = "failed" /\ sends[t].reply.info = ""
        /\ sends[t].ret = "send error: unrecognized reply from server"

\* C14: a Send call uses the one connection its own dial returned, not the
\* registration's and not an earlier call's, and on it writes at most one frame and
\* reads at most one; no call dials twice.
C14_OwnConnection ==
    /\ Len(links) <= dials
    /\ \A i, j \in DOMAIN links : i # j => links[i].call # links[j].call
    /\ \A i \in DOMAIN links : links[i].writes <= 1 /\ links[i].reads <= links[i].writes
    /\ \A k \in DOMAIN wire :
          /\ links[wire[k].conn].who = "send"
          /\ links[wire[k].conn].call = wire[k].call
    /\ \A t \in Callers : sends[t].pc # "idle" => links[sends[t].conn].call = sends[t].call

C14_Witness ==
    /\ Quiet /\ Len(wire) = 2
    /\ wire[1].conn # wire[2].conn
    /\ links[wire[1].conn].reads = 1
    /\ ~wire[2].ok /\ links[wire[2].conn].writes = 1 /\ links[wire[2].conn].reads = 0
    /\ \E t \in Callers : HasReturned(t) /\ sends[t].ret = "write error"

\* C15: once the call that dialled a connection has returned (Send, or
\* startActiveSession), that connection has been closed.
C15_ConnectionsClosed ==
    \A i \in DOMAIN links :
        (\A t \in Callers : sends[t].pc = "idle" \/ sends[t].call # links[i].call)
            => links[i].closed

\* C16: Start with a nil itemFunc panics before a listener is opened or a
\* connection accepted, whatever the address.
C16_NilItemFuncPanics ==
    (agent # None /\ agent.itemFunc = "nil") =>
        /\ proc = "panicked"
        /\ agent.listener = "none" /\ agent.ret = "none"
        /\ conns = <<>>

C16_Witness ==
    /\ agent # None /\ agent.itemFunc = "nil" /\ agent.address = Bindable
    /\ proc = "panicked"

\* C17: a Start that was given an itemFunc keeps serving as long as its listener
\* works: it has either not returned, or returned the non-nil error of net.Listen
\* or of Accept, whatever happened on the accepted connections.
C17_StartBlocks ==
    (agent # None /\ agent.itemFunc = "func") =>
        IF agent.ret = "none" THEN proc = "listening" /\ agent.listener = "open"
        ELSE proc = "returned" /\ agent.ret \in {"listen error", "accept error"}

\* the bytes of a stream, whatever the pieces they arrive in
RECURSIVE Joined(_)
Joined(chunks) == IF chunks = <<>> THEN Empty ELSE BCat(Head(chunks), Joined(Tail(chunks)))

\* byte i (from 0) of the little-endian form of n
LEByte(n, i) == (n \div (256 ^ i)) % 256

\* "ZBXD", 0x01, the length in 4 little-endian bytes, 4 zero bytes, the payload
Layout(data) ==
    BCat(Bytes(<<90, 66, 88, 68, 1,
                 LEByte(BLen(data), 0), LEByte(BLen(data), 1),
                 LEByte(BLen(data), 2), LEByte(BLen(data), 3),
                 0, 0, 0, 0>>, 0),
         data)

\* C18: what sendZabbixMessage writes for a payload is "ZBXD", 0x01, the payload
\* length in 4 little-endian bytes, 4 zero bytes and the payload, with no other flag
\* bit whatever the size; the reply frames of consumeReader have the same layout.
C18_FrameLayout ==
    /\ (sent # None /\ sent.ok /\ got = None) => Joined(pipe.chunks) = Layout(sent.data)
    /\ \A item \in ItemResults :
          replyFrame(replyData(item)) = Layout(Bytes(replyData(item), 0))

C18_Witness ==
    /\ sent # None /\ sent.ok /\ got = None
    /\ sent.data = Bytes(<<>>, MaxSize)
    /\ Joined(pipe.chunks) = Bytes(<<90, 66, 88, 68, 1, 0, 0, 0, 8>>, MaxSize + 4)

\* bit i of a flags byte, bit 0 being the least significant
BitSet(flags, i) == (flags \div (2 ^ i)) % 2 = 1

\* C19: a frame whose flags byte has the compression bit set or the protocol bit
\* clear is rejected by readZabbixMessage and gets no reply from newConnection,
\* whatever else the frame holds.
C19_BadFlagsRejected ==
    (BitSet(peer.flags, 1) \/ ~BitSet(peer.flags, 0)) =>
        /\ got # None => got.kind # "ok"
        /\ Handled(1) => conns[1].writes = <<>>

C19_Witness ==
    /\ peer.flags = 3 /\ peer.magic = Magic /\ peer.res = 0 /\ Whole(peer)
    /\ peer.len = BLen(peer.body) /\ peer.body = Bytes(Ping, 0)
    /\ got # None /\ got.kind = "err" /\ got.why = "invalid header: compression is not supported"
    /\ Handled(1) /\ conns[1].st = "closed" /\ conns[1].writes = <<>>

\* C20: a frame with a non-zero byte among its reserved bytes, its header
\* delivered whole, is rejected by readZabbixMessage and gets no reply from
\* newConnection.
C20_ReservedRejected ==
    (HeaderWhole(peer) /\ peer.res # 0) =>
        /\ got # None => got.kind # "ok"
        /\ Handled(1) => (conns[1].writes = <<>> \/ conns[1].werr)

\* every byte still unread on a stream
Unread(r) == BLen(Joined(r.chunks))

\* C21: a connection that newConnection has handled is closed, whether the reply
\* was written, its Write failed, or the request was dropped without a reply; and
\* no connection gets more than one reply frame, whatever the client sent after
\* its first frame.
C21_ClosedOnEveryPath ==
    \A c \in DOMAIN conns :
        /\ Len(conns[c].writes) <= 1
        /\ (Handled(c) /\ conns[c].st \notin {"blocked", "aborted"}) => conns[c].st = "closed"
        /\ conns[c].writes # <<>> => conns[c].st = "closed"

C21_Witness ==
    /\ conns[1].st = "closed" /\ Len(conns[1].writes) = 1 /\ conns[1].werr
    /\ peer.len = 9 /\ peer.body = Bytes(Ping, 0) /\ peer.split = 0
    /\ Unread(conns[1].in) = 1

\* C22: itemFunc is called at most once on a connection, only for a request that
\* readZabbixMessage accepts, and with the payload readZabbixMessage returns.
C22_CalledForValidFrameOnly ==
    (got # None /\ conns[1].item # None) =>
        /\ got.kind = "ok"
        /\ conns[1].key = got.data

\* the flags byte has the protocol bit and not the compression bit
FlagsValid(flags) == BitSet(flags, 0) /\ ~BitSet(flags, 1)

\* C26: for a frame that declares 128 MiB or more, readZabbixMessage returns an
\* error having consumed nothing of what follows the header.
C26_OversizeNotRead ==
    (peer # None /\ got # None /\ HeaderWhole(peer) /\ peer.magic = Magic
       /\ FlagsValid(peer.flags) /\ peer.res = 0 /\ peer.len >= MaxSize) =>
        /\ got.kind = "err"
        /\ Unread(got.rest) >= Unread(StreamOf(peer)) - HeaderLen(peer)

\* the header of q and a first part of its payload, shorter than the declared
\* length, arrive together; the rest of the payload arrives afterwards
PayloadInTwo(q) ==
    /\ q.split > HeaderLen(q) /\ q.split < Total(q) /\ ~q.cut
    /\ q.len > q.split - HeaderLen(q)

\* C27: the payload is read with one Read: when that Read returns fewer bytes than
\* declared the frame is rejected at once, the later bytes are left unread, and
\* neither readZabbixMessage nor newConnection waits for them.
C27_SingleRead ==
    (peer.magic = Magic /\ FlagsValid(peer.flags) /\ peer.res = 0 /\ peer.len < MaxSize
       /\ PayloadInTwo(peer)) =>
        /\ got # None =>
              /\ got.kind = "err" /\ got.why = "invalid header: incorrect data length"
              /\ Unread(got.rest) = Total(peer) - peer.split
        /\ Handled(1) =>
              /\ conns[1].st = "closed" /\ conns[1].writes = <<>> /\ conns[1].item = None
              /\ conns[1].in.chunks # <<>>

C27_Witness ==
    /\ peer.magic = Magic /\ peer.flags = 1 /\ peer.res = 0 /\ peer.len = 10
    /\ peer.body = Bytes(Ping, 0) /\ peer.split = 15 /\ ~peer.cut /\ peer.end = "open"
    /\ got # None /\ got.kind = "err" /\ Unread(got.rest) = 8
    /\ conns[1].st = "closed" /\ conns[1].writes = <<>>

\* C28: when the input ends before the whole header has arrived,
\* readZabbixMessage returns no payload, itemFunc is not called and newConnection
\* writes nothing.
C28_TruncatedHeader ==
    (peer.cut /\ peer.split > 0 /\ peer.split < HeaderLen(peer) /\ peer.end = "eof") =>
        /\ got # None => got.kind # "ok"
        /\ Handled(1) => (conns[1].item = None /\ conns[1].writes = <<>>)

\* C29: a frame with flags 0x05, an 8-byte length, 8 zero reserved bytes and a
\* payload of that length is accepted by readZabbixMessage, which returns the
\* payload; sendZabbixMessage never writes that form.
C29_LargePacketRead ==
    /\ (peer # None /\ got # None /\ Whole(peer) /\ peer.magic = Magic /\ peer.flags = 5
          /\ peer.res = 0 /\ peer.len = BLen(peer.body) /\ peer.len < MaxSize) =>
           (got.kind = "ok" /\ got.data = peer.body)
    /\ (sent # None /\ sent.ok /\ got = None) => ToSeq(BTake(Joined(pipe.chunks), 5))[5] = 1

C29_Witness ==
    /\ peer # None /\ peer.magic = Magic /\ peer.flags = 5 /\ peer.res = 0
    /\ peer.body = Bytes(Ping, 0) /\ peer.len = 10 /\ peer.split = 13 /\ ~peer.cut
    /\ got # None /\ got.kind = "ok" /\ got.data = Bytes(Ping, 0)

FirstIdx(i) == IF session # None /\ i \in ItemsOf(session.items) THEN 1 ELSE 0

\* C25: a Send whose dial fails hands no batch to a connection and leaves the
\* counters as they were; every batch of a Send that got past its dial, whether or
\* not its write and its reply then succeeded, has advanced the counter of each of
\* its items by one, so the ids of a failed batch are not given out again.
C25_CountersAfterFailure ==
    /\ \A k \in DOMAIN wire : ~DialFailed(wire[k].call)
    /\ \A t \in Callers : (HasReturned(t) /\ sends[t].ret = "dial error") => DialFailed(sends[t].call)
    /\ Quiet => \A i \in {Registered, Foreign} :
                   /\ session # None => Lookup(session.itemIdx, i) = FirstIdx(i) + Len(IdsOf(i))
                   /\ \A k \in 2..Len(IdsOf(i)) : IdsOf(i)[k] > IdsOf(i)[k - 1]

\* a dial failure after a failed batch: the counter stays where the batch left it
C25_Witness ==
    /\ Quiet /\ session # None /\ Len(wire) = 1 /\ ~wire[1].ok
    /\ wire[1].data = <<[itemid |-> Registered, id |-> 1]>>
    /\ \E t \in Callers : sends[t].ret = "dial error" /\ sends[t].call = 3
    /\ session.itemIdx[Registered] = 2

\* the handler of connection c is waiting: for bytes of the request, or for itemFunc
Stuck(c) == conns[c].st = "blocked"

\* C23: while the handler of an accepted connection is stuck in a Read or in
\* itemFunc, the accept loop can still accept another connection, and every
\* other connection whose request reached itemFunc, and for which itemFunc
\* returned, got its one reply and was closed.
C23_AcceptIndependent ==
    (proc = "listening" /\ \E c \in DOMAIN conns : Stuck(c)) =>
        /\ Len(conns) < MaxConns => ENABLED Accept
        /\ \A d \in DOMAIN conns :
              (Handled(d) /\ conns[d].item # None /\ ~conns[d].item.hangs) =>
                  (conns[d].st = "closed" /\ Len(conns[d].writes) = 1)

C23_Witness ==
    /\ proc = "listening" /\ Len(conns) = 2
    /\ Stuck(1) /\ conns[1].item # None /\ conns[1].item.hangs
    /\ conns[2].st = "closed" /\ conns[2].item = [val |-> IntV(1), err |-> Nil, panics |-> FALSE, hangs |-> FALSE]
    /\ conns[2].writes = <<Bytes(PingReply, 0)>> /\ ~conns[2].werr

\* batches k and l of the wire carry the same sequence id for the same item id
SameId(k, l) ==
    \E a \in DOMAIN wire[k].data, b \in DOMAIN wire[l].data :
        /\ wire[k].data[a].itemid = wire[l].data[b].itemid
        /\ wire[k].data[a].id = wire[l].data[b].id

\* C24: with Send called from several goroutines, two batches can carry the same
\* sequence id for the same item id, and when they do, at least one of the two
\* calls ran its counter loop while another Send was in progress.
C24_DuplicateOnlyWhenOverlapping ==
    \A k, l \in DOMAIN wire :
        (k < l /\ SameId(k, l)) => (wire[k].overlapped \/ wire[l].overlapped)

C24_Witness ==
    /\ Len(wire) = 2 /\ wire[1].by # wire[2].by
    /\ wire[1].data = <<[itemid |-> Registered, id |-> 1]>>
    /\ wire[2].data = <<[itemid |-> Registered, id |-> 1]>>
    /\ wire[1].overlapped /\ wire[2].overlapped
    /\ session.itemIdx[Registered] = 2

\* the item ids of a batch
BatchIds(data) == {data[k].itemid : k \in DOMAIN data}

\* C31: a Send changes nothing of the session but the counters of the item ids in
\* its batch: once its loop is done each of them is one more than when the call
\* was made, in whatever order the loop took them, and every other counter is as
\* it was; no step changes the session id, the hostname, the item list or the
\* dial function, and every batch carries the session id of the registration.
C31_SendFrame ==
    /\ [](/\ \A k \in DOMAIN wire : session # None /\ wire[k].session = session.session
          /\ \A t \in Callers :
                sends[t].pc \in {"write", "read"} =>
                    /\ DOMAIN session.itemIdx = DOMAIN sends[t].base \cup BatchIds(sends[t].data)
                    /\ \A i \in DOMAIN session.itemIdx :
                          session.itemIdx[i] = Lookup(sends[t].base, i)
                                                 + (IF i \in BatchIds(sends[t].data) THEN 1 ELSE 0))
    /\ [][session # None =>
             /\ session' # None
             /\ session'.session = session.session
             /\ session'.hostname = session.hostname
             /\ session'.dialFunc = session.dialFunc
             /\ session'.items = session.items
             /\ (session'.itemIdx # session.itemIdx => \E t \in Callers : sends[t].pc = "store")]_vars

C31_Witness ==
    /\ session # None /\ session.items = <<Registered>>
    /\ \E t \in Callers :
         /\ sends[t].pc = "read" /\ sends[t].call = 3
         /\ sends[t].data = <<[itemid |-> Foreign, id |-> 0], [itemid |-> Registered, id |-> 2]>>
         /\ sends[t].base = Store(<<>>, Registered, 2)
    /\ session.itemIdx = Store(Store(<<>>, Registered, 3), Foreign, 1)
    /\ Len(wire) = 2 /\ wire[1].session = wire[2].session

\* the length field of a 13-byte header, in limbs
FieldOf(header) == <<header[6] + 256 * header[7], header[8] + 256 * header[9], 0, 0>>

\* C32: the length field of the frame sendZabbixMessage builds is the number of
\* payload bytes that follow it, for a payload of any size: it is never the
\* length of a longer payload reduced modulo 2^32.
C32_LengthFieldExact ==
    (sent # None /\ "header" \in DOMAIN sent) => FieldOf(sent.header) = length(sent.data)

====
